---- MODULE Spec2Model ----
(***************************************************************************)
(* os_server_actions: one invocation of the Ansible module that performs   *)
(* a lifecycle action or a metadata mutation on one OpenStack server.      *)
(*                                                                         *)
(* The provider (shade / nova) is the environment: every call into it      *)
(* either raises shade.OpenStackCloudException or returns, and every       *)
(* get_server returns None or a server whose status and metadata the       *)
(* provider chooses.                                                       *)
(***************************************************************************)
EXTENDS Integers, Sequences, FiniteSets, TLC

\* ------------------------------------------------------------------ bounds
\* Largest value of the timeout parameter (seconds).
MaxTimeout == 3
\* Largest time one pass of the polling loop takes (fetch plus sleep).
MaxDelay == 2

\* ------------------------------------------------------- the value universe
\* Server statuses the provider may report.
Statuses == {"ACTIVE", "SHUTOFF", "PAUSED", "SUSPENDED", "ERROR"}

\* Strings are sequences of one-character strings, so that split() can be
\* computed.  Metadata keys and values:
Keys == {<<"k">>, <<"j">>}
Vals == {<<"v">>, <<"w">>}

\* A dict is a function; the empty dict is the function of empty domain.
EmptyDict == <<>>

\* All dicts from a subset of Keys to Vals.
Dicts == UNION {[D -> Vals] : D \in SUBSET Keys}

\* Metadata given as a string (meta: "key1=value1,key2=value2").
MetaStrings ==
    { <<"k", "=", "v">>,
      <<"k", "=", "v", ",", "j", "=", "w">>,
      <<"k", "=", "w", ",", "k", "=", "v">>,
      <<"j", "=", "v">>,
      <<"k", "=", "v", "=", "w">>,
      <<"k", "v">>,
      <<"k", "=", "v", ",", "j">>,
      <<>> }

\* module.params['meta']: None (the default), a dict or a str.
MetaParams ==
    {[type |-> "NoneType", str |-> <<>>, dict |-> EmptyDict]}
    \cup {[type |-> "dict", str |-> <<>>, dict |-> d] : d \in Dicts}
    \cup {[type |-> "str", str |-> s, dict |-> EmptyDict] : s \in MetaStrings}

\* What cloud.get_server returned: None, or a server (status, metadata).
None == [found |-> FALSE, status |-> "", metadata |-> EmptyDict]
Servers == {[found |-> TRUE, status |-> s, metadata |-> d] :
                s \in Statuses, d \in Dicts}
\* The metadata handler reads server.metadata and server.id only.
MetadataServers == {s \in Servers : s.status = "ACTIVE"}
\* The state handler and the poller read server.status and server.id only.
StatusServers == {[found |-> TRUE, status |-> s, metadata |-> EmptyDict] :
                      s \in Statuses}

\* Outcome of a provider call that returns nothing: it returns or raises
\* shade.OpenStackCloudException.
CallOutcomes == {"ok", "raise"}

\* ----------------------------------------------------------- module tables
_action_map ==
    [a \in {"stop", "start", "pause", "unpause", "lock", "unlock",
            "suspend", "resume"} |->
        CASE a = "stop"    -> "SHUTOFF"
          [] a = "start"   -> "ACTIVE"
          [] a = "pause"   -> "PAUSED"
          [] a = "unpause" -> "ACTIVE"
          [] a = "lock"    -> "ACTIVE"
          [] a = "unlock"  -> "ACTIVE"
          [] a = "suspend" -> "SUSPENDED"
          [] a = "resume"  -> "ACTIVE"]

_system_state_actions ==
    {"stop", "start", "pause", "unpause", "lock", "unlock", "suspend", "resume"}

_metadata_actions == {"set_metadata", "delete_metadata"}

\* choices= of the action argument in main().
ActionChoices == _system_state_actions \cup _metadata_actions

\* ----------------------------------------------------------- pure helpers
\* Mutant of _system_state_change: the comparison with the map is lost.
SystemStateChangeAlways(a, status) == TRUE

\* _system_state_change(action, status): would the action change the status.
_system_state_change(a, status) ==
    IF status = _action_map[a] THEN FALSE ELSE TRUE

\* dict.items() as a set of (key, value) pairs.
Items(d) == {<<k, d[k]>> : k \in DOMAIN d}

\* Mutant of _needs_metadata_update: the two mappings are compared for
\* equality, so that a key only the server holds counts as a difference.
NeedsUpdateUnlessEqual(server_metadata, md) ==
    {<<k, md[k]>> : k \in DOMAIN md}
        # {<<k, server_metadata[k]>> : k \in DOMAIN server_metadata}

\* Mutant of _needs_metadata_update: only the keys are compared.
NeedsUpdateKeysOnly(server_metadata, md) ==
    (DOMAIN md) \ (DOMAIN server_metadata) # {}

_needs_metadata_update(server_metadata, md) ==
    Cardinality(Items(md) \ Items(server_metadata)) # 0

\* Mutant of _get_metadate_keys_to_delete: the requested keys, unfiltered.
KeysToDeleteRequested(server_metadata_keys, metadata_keys) == metadata_keys

_get_metadate_keys_to_delete(server_metadata_keys, metadata_keys) ==
    server_metadata_keys \cap metadata_keys

\* str.split(sep) for a one-character separator: the pieces between the
\* separators, empty pieces included; always at least one piece.
RECURSIVE Split(_, _)
Split(s, sep) ==
    IF \A i \in 1..Len(s) : s[i] # sep
    THEN <<s>>
    ELSE LET i == CHOOSE n \in 1..Len(s) :
                      s[n] = sep /\ \A j \in 1..(n - 1) : s[j] # sep
         IN  <<SubSeq(s, 1, i - 1)>> \o Split(SubSeq(s, i + 1, Len(s)), sep)

\* metas[k] = v
DictPut(d, k, v) ==
    [x \in (DOMAIN d) \cup {k} |-> IF x = k THEN v ELSE d[x]]

\* The loop of lines 235-237 over the pieces still to do: "k, v = ..."
\* raises ValueError unless the split on "=" gives exactly two parts.
RECURSIVE ParsePairs(_, _)
ParsePairs(pieces, metas) ==
    IF pieces = <<>>
    THEN [error |-> FALSE, dict |-> metas]
    ELSE LET kv == Split(Head(pieces), "=")
         IN  IF Len(kv) # 2
             THEN [error |-> TRUE, dict |-> EmptyDict]
             ELSE ParsePairs(Tail(pieces), DictPut(metas, kv[1], kv[2]))

\* Lines 233-238: a str is converted to a dict, anything else is kept.
\* type is the Python type of the value the handler goes on with.
NormalizeMeta(m) ==
    IF m.type = "str"
    THEN LET r == ParsePairs(Split(m.str, ","), EmptyDict)
         IN  [error |-> r.error, type |-> "dict", dict |-> r.dict]
    ELSE [error |-> FALSE, type |-> m.type, dict |-> m.dict]

\* -------------------------------------------------------------------- state
VARIABLES
    HAS_SHADE,    \* the import of shade succeeded
    action,       \* module.params['action']
    wait,         \* module.params['wait']
    timeout,      \* module.params['timeout']
    check_mode,   \* module.check_mode
    meta,         \* module.params['meta']
    pc,           \* "main": before the handler; "wait": inside _wait; "done"
    server,       \* the handler's variable server: the last get_server value
    status,       \* the handler's variable status (line 145), "" before it
    lastPoll,     \* what the last get_server of _wait did, "" before it
    lookup,       \* what the first get_server (line 142 / 227) did
    raisedCall,   \* the dispatch or mutation call was issued and raised
    prev,         \* the run before this one, for a repeated invocation
    fetches,      \* number of cloud.get_server calls issued
    polls,        \* number of those issued by _wait
    fetchRaised,  \* some get_server call of _wait raised
    calls,        \* the dispatch and mutation calls issued, in order
    clock,        \* time elapsed since _wait was entered
    result,       \* the results produced (exit_json / fail_json), in order
    exc           \* the uncaught exception that ended the run, or "none"

params == <<HAS_SHADE, action, wait, timeout, check_mode, meta>>
vars == <<HAS_SHADE, action, wait, timeout, check_mode, meta, pc, server,
          status, lastPoll, lookup, raisedCall, prev, fetches, polls,
          fetchRaised, calls, clock, result, exc>>

\* Messages are (text, argument) pairs.
NoMsg == <<"", "">>
NoData == [present |-> FALSE, metadata |-> EmptyDict]
\* str(e) / e.message of the provider's exception.
ProviderMsg == <<"OpenStackCloudException", "">>
NotFoundMsg(name) == <<"Could not find server", name>>
TimeoutMsg(a) == <<"Timeout waiting for server to complete", a>>
ErrorStateMsg(a) == <<"Server reached ERROR state while attempting to", a>>

\* module.exit_json(**kwargs): prints the result and exits the process.
exit_json(changed, data) ==
    /\ result' = Append(result, [kind |-> "exit_json", changed |-> changed,
                                 msg |-> NoMsg, extra_data |-> FALSE,
                                 data |-> data])
    /\ pc' = "done"
    /\ exc' = exc

\* Mutant of fail_json: the extra_data of the exception is not passed on.
FailJsonNoExtra(msg, extra) ==
    /\ result' = Append(result, [kind |-> "fail_json", changed |-> FALSE,
                                 msg |-> msg, extra_data |-> FALSE,
                                 data |-> NoData])
    /\ pc' = "done"
    /\ exc' = exc

\* module.fail_json(msg=..., [extra_data=...]): prints the failure and exits.
fail_json(msg, extra) ==
    /\ result' = Append(result, [kind |-> "fail_json", changed |-> FALSE,
                                 msg |-> msg, extra_data |-> extra,
                                 data |-> NoData])
    /\ pc' = "done"
    /\ exc' = exc

\* An exception no except clause of the module catches ends the process
\* with a traceback and no result.
Uncaught(e) ==
    /\ pc' = "done"
    /\ exc' = e
    /\ result' = result

\* The handler returns to main, and main returns, with nothing reported.
ReturnNone ==
    /\ pc' = "done"
    /\ UNCHANGED <<result, exc>>

\* What one cloud.get_server call can do, S being the servers it may return.
GetOutcomes(S) ==
    {[raised |-> TRUE, server |-> None]}
    \cup {[raised |-> FALSE, server |-> s] : s \in S \cup {None}}

\* Before the first get_server.
NoLookup == [raised |-> FALSE, server |-> None]

\* No run before this one.
NoPrev == [valid |-> FALSE, result |-> <<>>, calls |-> <<>>,
           lookup |-> NoLookup, server |-> None]

\* What the first get_server of a run can do.  In a run that repeats the
\* one before, nothing else having touched the server, the provider still
\* holds the server as the last get_server of that run returned it.
FirstLookup(S) ==
    IF prev.valid
    THEN {[raised |-> TRUE, server |-> None],
          [raised |-> FALSE, server |-> prev.server]}
    ELSE GetOutcomes(S)

\* Mutant of NotFound: the test for a missing server is lost.
NotFoundNever(srv) == FALSE

\* "if not server:" (lines 143, 228).
NotFound(srv) == ~srv.found

Init ==
    /\ HAS_SHADE \in BOOLEAN
    /\ action \in ActionChoices
    /\ wait \in BOOLEAN
    /\ timeout \in 0..MaxTimeout
    /\ check_mode \in BOOLEAN
    /\ meta \in MetaParams
    /\ pc = "main"
    /\ server = None
    /\ status = ""
    /\ lastPoll = ""
    /\ lookup = NoLookup
    /\ raisedCall = FALSE
    /\ prev = NoPrev
    /\ fetches = 0
    /\ polls = 0
    /\ fetchRaised = FALSE
    /\ calls = <<>>
    /\ clock = 0
    /\ result = <<>>
    /\ exc = "none"

\* main(), lines 279-280.
MainNoShade ==
    /\ pc = "main"
    /\ ~HAS_SHADE
    /\ fail_json(<<"shade is required for this module", "">>, FALSE)
    /\ UNCHANGED <<params, server, status, lastPoll, lookup, raisedCall,
                   prev, fetches, polls, fetchRaised, calls, clock>>

\* A dispatch or mutation call as recorded in calls.
Call(name, md, keys) == [name |-> name, metadata |-> md, keys |-> keys]
Dispatch(a) == Call(a, EmptyDict, {})
NoCall == Call("", EmptyDict, {})

\* The actions whose exit_json(changed=True) is inside "if wait:" (lines
\* 155-157, 164-166, 173-175); for the others it follows the if (lines
\* 182-184, 201-203, 210-212).
ExitInsideWait == {"stop", "start", "pause"}

\* The branches that test _system_state_change before dispatching.
StatusActions == {"stop", "start", "pause", "unpause", "suspend", "resume"}

\* Mutant of StatePlan: the lock and unlock branches run before the
\* check-mode test.
StatePlanLockBeforeCheck(a, cm, w, st) ==
    IF a \in {"lock", "unlock"}
    THEN [dispatch |-> TRUE, next |-> "exit", changed |-> TRUE]
    ELSE IF cm
    THEN [dispatch |-> FALSE, next |-> "exit",
          changed |-> _system_state_change(a, st)]
    ELSE IF ~_system_state_change(a, st)
    THEN [dispatch |-> FALSE, next |-> "exit", changed |-> FALSE]
    ELSE IF w
    THEN [dispatch |-> TRUE, next |-> "wait", changed |-> TRUE]
    ELSE IF a \in ExitInsideWait
    THEN [dispatch |-> TRUE, next |-> "return", changed |-> FALSE]
    ELSE [dispatch |-> TRUE, next |-> "exit", changed |-> TRUE]

\* Mutant of StatePlan: a live run dispatches without testing the status.
StatePlanAlwaysDispatch(a, cm, w, st) ==
    IF cm
    THEN [dispatch |-> FALSE, next |-> "exit",
          changed |-> _system_state_change(a, st)]
    ELSE IF a \in {"lock", "unlock"}
    THEN [dispatch |-> TRUE, next |-> "exit", changed |-> TRUE]
    ELSE IF w
    THEN [dispatch |-> TRUE, next |-> "wait", changed |-> TRUE]
    ELSE IF a \in ExitInsideWait
    THEN [dispatch |-> TRUE, next |-> "return", changed |-> FALSE]
    ELSE [dispatch |-> TRUE, next |-> "exit", changed |-> TRUE]

\* Mutant of StatePlan: lock and unlock test the status like the others.
StatePlanLockByStatus(a, cm, w, st) ==
    IF cm
    THEN [dispatch |-> FALSE, next |-> "exit",
          changed |-> _system_state_change(a, st)]
    ELSE IF ~_system_state_change(a, st)
    THEN [dispatch |-> FALSE, next |-> "exit", changed |-> FALSE]
    ELSE IF a \in {"lock", "unlock"}
    THEN [dispatch |-> TRUE, next |-> "exit", changed |-> TRUE]
    ELSE IF w
    THEN [dispatch |-> TRUE, next |-> "wait", changed |-> TRUE]
    ELSE IF a \in ExitInsideWait
    THEN [dispatch |-> TRUE, next |-> "return", changed |-> FALSE]
    ELSE [dispatch |-> TRUE, next |-> "exit", changed |-> TRUE]

\* Lines 147-212 for a fetched server of status st: whether the provider
\* call of the action is issued and, when that call returns, how the handler
\* goes on: "exit" (exit_json(changed)), "wait" (_wait, then
\* exit_json(changed)) or "return" (no branch left: the handler returns).
StatePlan(a, cm, w, st) ==
    IF cm
    THEN [dispatch |-> FALSE, next |-> "exit",
          changed |-> _system_state_change(a, st)]
    ELSE IF a \in StatusActions /\ ~_system_state_change(a, st)
    THEN [dispatch |-> FALSE, next |-> "exit", changed |-> FALSE]
    ELSE IF a \in {"lock", "unlock"}
    THEN [dispatch |-> TRUE, next |-> "exit", changed |-> TRUE]
    ELSE IF w
    THEN [dispatch |-> TRUE, next |-> "wait", changed |-> TRUE]
    ELSE IF a \in ExitInsideWait
    THEN [dispatch |-> TRUE, next |-> "return", changed |-> FALSE]
    ELSE [dispatch |-> TRUE, next |-> "exit", changed |-> TRUE]

\* _handle_system_state_action, lines 134-215, up to the entry of _wait.
HandleSystemStateAction ==
    /\ pc = "main"
    /\ HAS_SHADE
    /\ action \in _system_state_actions
    /\ \E g \in FirstLookup(StatusServers), d \in CallOutcomes :
         /\ fetches' = fetches + 1
         /\ lookup' = g
         /\ IF g.raised
            THEN /\ UNCHANGED <<server, status, calls, raisedCall>>
                 /\ fail_json(ProviderMsg, TRUE)
            ELSE /\ server' = g.server
                 /\ IF NotFound(g.server)
                    THEN /\ UNCHANGED <<status, calls, raisedCall>>
                         /\ fail_json(NotFoundMsg("None"), FALSE)
                    ELSE LET plan == StatePlan(action, check_mode, wait,
                                               g.server.status)
                         IN  /\ status' = g.server.status
                             /\ raisedCall' =
                                    (plan.dispatch /\ d = "raise")
                             /\ IF ~plan.dispatch
                                THEN /\ calls' = calls
                                     /\ exit_json(plan.changed, NoData)
                                ELSE /\ calls' = Append(calls, Dispatch(action))
                                     /\ IF d = "raise"
                                        THEN fail_json(ProviderMsg, TRUE)
                                        ELSE IF plan.next = "wait"
                                        THEN /\ pc' = "wait"
                                             /\ UNCHANGED <<result, exc>>
                                        ELSE IF plan.next = "return"
                                        THEN ReturnNone
                                        ELSE exit_json(plan.changed, NoData)
    /\ UNCHANGED <<params, lastPoll, prev, polls, fetchRaised, clock>>

\* Mutant of IterateTimeoutExpired: the deadline is taken one unit early.
IterateTimeoutEarly(now, limit) == ~(now + 1 < limit)

\* shade._utils._iterate_timeout(timeout, message): the generator yields
\* while time.time() < start + timeout and raises OpenStackCloudTimeout
\* (message) once that fails.  now is the time elapsed since start.
IterateTimeoutExpired(now, limit) == ~(now < limit)

\* Mutant of PollVerdict: get_server is called outside any try, so that its
\* exception leaves _wait.
PollVerdictNoTry(a, g) ==
    IF g.raised THEN "Exception"
    ELSE IF ~g.server.found THEN "AttributeError"
    ELSE IF g.server.status = _action_map[a] THEN "return"
    ELSE IF g.server.status = "ERROR" THEN "NameError"
    ELSE "continue"

\* Mutant of PollVerdict: any status but ERROR counts as converged.
PollVerdictAnyStatus(a, g) ==
    IF g.raised THEN "continue"
    ELSE IF ~g.server.found THEN "AttributeError"
    ELSE IF g.server.status # "ERROR" THEN "return"
    ELSE "NameError"

\* The body of the loop of _wait, lines 107-116, for one get_server outcome:
\* "continue" (next pass), "return" (converged), or the exception that
\* leaves _wait.  fail_json at line 116 is called on the name module, which
\* is neither a parameter nor a global of the file: NameError.
PollVerdict(a, g) ==
    IF g.raised THEN "continue"
    ELSE IF ~g.server.found THEN "AttributeError"
    ELSE IF g.server.status = _action_map[a] THEN "return"
    ELSE IF g.server.status = "ERROR" THEN "NameError"
    ELSE "continue"

\* What a get_server outcome is recorded as in lastPoll.
Seen(g) ==
    IF g.raised THEN "raised"
    ELSE IF ~g.server.found THEN "None" ELSE g.server.status

\* One pass of the loop of _wait, lines 104-116: the generator yields, the
\* server is fetched again and its status examined; when the body goes round
\* again the generator sleeps before it tests the deadline.
WaitIterate ==
    /\ pc = "wait"
    /\ ~IterateTimeoutExpired(clock, timeout)
    /\ \E g \in GetOutcomes(StatusServers), d \in 1..MaxDelay :
         LET v == PollVerdict(action, g)
         IN  /\ fetches' = fetches + 1
             /\ polls' = polls + 1
             /\ lastPoll' = Seen(g)
             /\ fetchRaised' = (fetchRaised \/ g.raised)
             /\ server' = IF g.raised THEN server ELSE g.server
             /\ IF v = "continue"
                THEN /\ clock' = clock + d
                     /\ UNCHANGED <<pc, result, exc>>
                ELSE IF v = "return"
                THEN \* lines 157, 166, 175, 184, 203, 212
                     /\ clock' = clock
                     /\ exit_json(TRUE, NoData)
                ELSE /\ clock' = clock
                     /\ Uncaught(v)
    /\ UNCHANGED <<params, status, lookup, raisedCall, prev, calls>>

\* The generator raises OpenStackCloudTimeout, a subclass of
\* OpenStackCloudException: caught at lines 214-215.
WaitTimeout ==
    /\ pc = "wait"
    /\ IterateTimeoutExpired(clock, timeout)
    /\ fail_json(TimeoutMsg(action), TRUE)
    /\ UNCHANGED <<params, server, status, lastPoll, lookup, raisedCall,
                   prev, fetches, polls, fetchRaised, calls, clock>>

\* Lines 240-256 for a dict md and a server holding smd: early is the
\* check-mode exit_json(changed=True); mutate is the provider call.
MetaPlan(a, cm, smd, md) ==
    LET keys_to_delete ==
            _get_metadate_keys_to_delete(DOMAIN smd, DOMAIN md)
        diff == IF a = "set_metadata"
                THEN _needs_metadata_update(smd, md)
                ELSE Cardinality(keys_to_delete) > 0
        call == IF a = "set_metadata"
                THEN Call("set_metadata_server", md, {})
                ELSE Call("delete_metadata_server", EmptyDict, keys_to_delete)
    IN  IF ~diff THEN [early |-> FALSE, mutate |-> FALSE, call |-> NoCall]
        ELSE IF cm THEN [early |-> TRUE, mutate |-> FALSE, call |-> NoCall]
        ELSE [early |-> FALSE, mutate |-> TRUE, call |-> call]

\* _handle_metadata_action, lines 218-265.
HandleMetadataAction ==
    /\ pc = "main"
    /\ HAS_SHADE
    /\ action \in _metadata_actions
    /\ \E g \in FirstLookup(MetadataServers), d \in CallOutcomes :
         /\ lookup' = g
         /\ LET md == NormalizeMeta(meta)
                data(srv) == [present |-> TRUE, metadata |-> srv.metadata]
                Quiet == /\ fetches' = fetches + 1
                         /\ calls' = calls
                         /\ raisedCall' = FALSE
                         /\ server' = g.server
                \* lines 258-262, after a mutation that returned
                Refetch ==
                    /\ fetches' = fetches + 2
                    /\ \E g2 \in GetOutcomes(MetadataServers) :
                         IF g2.raised
                         THEN /\ server' = g.server
                              /\ fail_json(ProviderMsg, TRUE)
                         ELSE /\ server' = g2.server
                              /\ IF ~g2.server.found
                                 THEN \* server.id of None
                                      Uncaught("AttributeError")
                                 ELSE exit_json(TRUE, data(g2.server))
            IN
            IF g.raised
            THEN /\ UNCHANGED <<server, calls, raisedCall>>
                 /\ fetches' = fetches + 1
                 /\ fail_json(ProviderMsg, TRUE)
            ELSE IF NotFound(g.server)
            THEN /\ Quiet
                 /\ fail_json(NotFoundMsg("server_name"), FALSE)
            ELSE IF md.error
            THEN \* k, v = kv_str.split("=")
                 /\ Quiet
                 /\ Uncaught("ValueError")
            ELSE IF md.type = "NoneType"
            THEN \* metadata.items() / metadata.keys() of None
                 /\ Quiet
                 /\ Uncaught("AttributeError")
            ELSE LET plan == MetaPlan(action, check_mode, g.server.metadata,
                                      md.dict)
                 IN  IF plan.early
                     THEN /\ Quiet
                          /\ exit_json(TRUE, NoData)
                     ELSE IF plan.mutate
                     THEN /\ calls' = Append(calls, plan.call)
                          /\ raisedCall' = (d = "raise")
                          /\ IF d = "raise"
                             THEN /\ fetches' = fetches + 1
                                  /\ server' = g.server
                                  /\ fail_json(ProviderMsg, TRUE)
                             ELSE Refetch
                     ELSE /\ Quiet
                          /\ exit_json(FALSE, data(g.server))
    /\ UNCHANGED <<params, status, lastPoll, prev, polls, fetchRaised,
                   clock>>

Next ==
    \/ MainNoShade
    \/ HandleSystemStateAction
    \/ WaitIterate
    \/ WaitTimeout
    \/ HandleMetadataAction

Spec == Init /\ [][Next]_vars

\* The same request is run again right after a run whose last get_server
\* returned a server: a new process, so every variable of the handler starts
\* afresh; the provider keeps the server.
Reinvoke ==
    /\ pc = "done"
    /\ server.found
    /\ prev' = [valid |-> TRUE, result |-> result, calls |-> calls,
                lookup |-> lookup, server |-> server]
    /\ pc' = "main"
    /\ server' = None
    /\ status' = ""
    /\ lastPoll' = ""
    /\ lookup' = NoLookup
    /\ raisedCall' = FALSE
    /\ fetches' = 0
    /\ polls' = 0
    /\ fetchRaised' = FALSE
    /\ calls' = <<>>
    /\ clock' = 0
    /\ result' = <<>>
    /\ exc' = "none"
    /\ UNCHANGED params

NextRepeat ==
    \/ Next
    \/ Reinvoke

\* Invocations of one request, repeated.
SpecRepeat == Init /\ [][NextRepeat]_vars

\* =================================================================== claims
\* Exactly the success result exit_json(changed=ch) without data.
Succeeded(ch) ==
    result = <<[kind |-> "exit_json", changed |-> ch, msg |-> NoMsg,
                extra_data |-> FALSE, data |-> NoData]>>

\* Exactly one result, a failure carrying msg.
Failed(msg) ==
    /\ Len(result) = 1
    /\ result[1].kind = "fail_json"
    /\ result[1].msg = msg

\* The provider call of a state action was issued and raised.
DispatchRaised == calls # <<>> /\ Failed(ProviderMsg)

\* The run of a state action went into _wait.
EnteredWait ==
    /\ HAS_SHADE
    /\ ~check_mode
    /\ wait
    /\ action \in StatusActions
    /\ calls = <<Dispatch(action)>>
    /\ ~DispatchRaised

\* C1: under check mode no dispatch call and no metadata mutation call is
\* ever issued, whatever the action, the server status and the metadata; the
\* poller is never entered either.
C1_CheckModeIssuesNoCall ==
    check_mode => (calls = <<>> /\ polls = 0 /\ pc # "wait")

\* C1 witness: a check-mode lock that reported changed=True and a finished
\* run, with nothing dispatched.
C1_Witness ==
    /\ check_mode
    /\ pc = "done"
    /\ action = "lock"
    /\ status = "SHUTOFF"
    /\ Succeeded(TRUE)
    /\ calls = <<>>

\* C2 (the claim as stated): the value of the change detector, which a
\* check-mode run of a state action reports as changed (line 148), is False
\* when the status is the action's expected status and True for any other
\* status, except for lock and unlock, where it is True whatever the status.
C2_DetectorAsClaimed ==
    (/\ pc = "done"
     /\ HAS_SHADE
     /\ check_mode
     /\ action \in _system_state_actions
     /\ status \in Statuses)
    => Succeeded(IF action \in {"lock", "unlock"}
                 THEN TRUE
                 ELSE status # _action_map[action])

\* C3 (the claim as stated): every invocation ends having produced exactly
\* one result, a success or a failure.
C3_ExactlyOneResult ==
    pc = "done" => Len(result) = 1

\* C4 (the claim as stated): outside check mode, a state action other than
\* lock/unlock on a server whose status differs from the expected one issues
\* the provider call and, unless that call raises, reports changed=True:
\* with wait once the poller has fetched the expected status, without wait
\* at once.
C4_DispatchThenChanged ==
    (/\ pc = "done"
     /\ HAS_SHADE
     /\ ~check_mode
     /\ action \in StatusActions
     /\ status \in Statuses
     /\ status # _action_map[action])
    => /\ calls = <<Dispatch(action)>>
       /\ (/\ ~DispatchRaised
           /\ wait => lastPoll = _action_map[action])
          => Succeeded(TRUE)

\* C5: outside check mode, a state action other than lock/unlock on a server
\* that already has the expected status reports changed=False at once: no
\* provider call for the action, no poll, a single fetch.
C5_NoOpWhenAlreadyThere ==
    (/\ HAS_SHADE
     /\ ~check_mode
     /\ action \in StatusActions
     /\ status = _action_map[action])
    => /\ pc = "done"
       /\ Succeeded(FALSE)
       /\ calls = <<>>
       /\ polls = 0
       /\ fetches = 1

\* C5 witness: stop on a server that is SHUTOFF, with wait.
C5_Witness ==
    /\ HAS_SHADE
    /\ ~check_mode
    /\ wait
    /\ action = "stop"
    /\ status = "SHUTOFF"
    /\ pc = "done"
    /\ Succeeded(FALSE)

\* C6 (the claim as stated): the poller ends after at most one pass per unit
\* of the timeout, and a run that went into it ends in exactly one of
\* success, the failure for the ERROR state, or the timeout failure.
C6_PollerEndsInOneOfThree ==
    EnteredWait
    => /\ polls <= timeout
       /\ pc = "done"
          => \/ Succeeded(TRUE)
             \/ Failed(ErrorStateMsg(action))
             \/ Failed(TimeoutMsg(action))

\* C7 (the claim as stated): when a poll fetches a server of status ERROR
\* the run ends there with a failure result whose message names the action.
C7_ErrorStateFails ==
    (pc = "done" /\ polls >= 1 /\ lastPoll = "ERROR")
    => Failed(ErrorStateMsg(action))

\* C8: a get_server that raises during polling neither ends the poll nor
\* produces a result; a run with fetch errors and then a fetch of the
\* expected status ends in success with changed=True; a run whose last poll
\* raised (so every run whose polls all raised) ends with the timeout
\* failure, at or after the deadline.
C8_FetchErrorsSwallowed ==
    /\ [][(pc = "wait" /\ polls' = polls + 1 /\ lastPoll' = "raised")
             => (pc' = "wait" /\ result' = result /\ exc' = exc)]_vars
    /\ []((pc = "done" /\ fetchRaised /\ lastPoll = _action_map[action])
             => Succeeded(TRUE))
    /\ []((pc = "done" /\ polls >= 1 /\ lastPoll = "raised")
             => (Failed(TimeoutMsg(action)) /\ clock >= timeout))

\* C8 witness: a poll raised, a later poll fetched the expected status, and
\* the run reported changed=True.
C8_Witness ==
    /\ pc = "done"
    /\ fetchRaised
    /\ polls >= 2
    /\ lastPoll = _action_map[action]
    /\ Succeeded(TRUE)

\* C9: a run that went into the poller and ended without a poll having
\* fetched the expected status, ERROR or no server ended with exactly the
\* timeout failure naming the action (so not with changed=True), and a
\* timeout failure is only ever reported at or after the deadline.
C9_TimeoutFailure ==
    /\ (/\ pc = "done"
        /\ EnteredWait
        /\ lastPoll \notin {_action_map[action], "ERROR", "None"})
       => (Failed(TimeoutMsg(action)) /\ clock >= timeout)
    /\ (\E i \in 1..Len(result) : result[i].msg[1] = TimeoutMsg("")[1])
       => (EnteredWait /\ Failed(TimeoutMsg(action)) /\ clock >= timeout)

\* C9 witness: two polls that did not converge, then the timeout failure.
C9_Witness ==
    /\ pc = "done"
    /\ polls >= 2
    /\ lastPoll = "ACTIVE"
    /\ action = "pause"
    /\ Failed(TimeoutMsg("pause"))

\* C10: with wait and outside check mode, a state action other than
\* lock/unlock reports changed=True only after its provider call was issued
\* on a server that needed the change and after a poll fetched the expected
\* status; the poll that fetches the expected status is the last fetch of
\* the run, which then ends at once with changed=True.
C10_ChangedOnlyAfterConvergence ==
    /\ (/\ HAS_SHADE
        /\ wait
        /\ ~check_mode
        /\ action \in StatusActions
        /\ Len(result) >= 1
        /\ result[1].kind = "exit_json"
        /\ result[1].changed)
       => /\ calls = <<Dispatch(action)>>
          /\ status # _action_map[action]
          /\ polls >= 1
          /\ lastPoll = _action_map[action]
          /\ server.status = _action_map[action]
    /\ (polls >= 1 /\ lastPoll = _action_map[action])
       => (pc = "done" /\ Succeeded(TRUE) /\ fetches = polls + 1)

\* C10 witness: the first poll fetched the expected status and the run ended
\* with changed=True after two fetches in all.
C10_Witness ==
    /\ wait
    /\ action = "pause"
    /\ status = "ACTIVE"
    /\ polls = 1
    /\ fetches = 2
    /\ lastPoll = "PAUSED"
    /\ pc = "done"
    /\ Succeeded(TRUE)

\* The first get_server of the run returned a server.
LookupFound == fetches >= 1 /\ ~lookup.raised /\ lookup.server.found

\* The metadata handler got past the normalisation of meta with a dict.
MetaReady ==
    /\ HAS_SHADE
    /\ action \in _metadata_actions
    /\ LookupFound
    /\ ~NormalizeMeta(meta).error
    /\ NormalizeMeta(meta).type = "dict"

\* The success result of the metadata handler: changed and the metadata.
MetaSucceeded(ch, md) ==
    result = <<[kind |-> "exit_json", changed |-> ch, msg |-> NoMsg,
                extra_data |-> FALSE,
                data |-> [present |-> TRUE, metadata |-> md]]>>

\* C11: outside check mode, lock and unlock on an existing server issue the
\* provider call whatever the status and the wait flag, report changed=True
\* once that call has returned (the failure of the provider if it raised),
\* and never enter the poller: the lookup is the only get_server.
C11_LockUnlockAlwaysDispatch ==
    (/\ HAS_SHADE
     /\ ~check_mode
     /\ action \in {"lock", "unlock"}
     /\ LookupFound)
    => /\ pc = "done"
       /\ calls = <<Dispatch(action)>>
       /\ polls = 0
       /\ fetches = 1
       /\ IF raisedCall THEN Failed(ProviderMsg) ELSE Succeeded(TRUE)

\* C11 witness: a live lock with wait on a server that is ACTIVE, reported
\* as changed after the lock call.
C11_Witness ==
    /\ ~check_mode
    /\ wait
    /\ action = "lock"
    /\ status = "ACTIVE"
    /\ calls = <<Dispatch("lock")>>
    /\ polls = 0
    /\ Succeeded(TRUE)

\* Some desired pair is not a pair of the current mapping.
SomePairMissing(current, desired) ==
    \E k \in DOMAIN desired :
        k \notin DOMAIN current \/ current[k] # desired[k]

\* C12: set_metadata calls set_metadata_server, with the desired mapping,
\* exactly when some desired pair is missing from the server's mapping (a
\* key it lacks or holds with another value; keys only the server holds do
\* not count) and the run is not in check mode; and the changed it reports
\* is whether some desired pair was missing.
C12_SetMetadataWhenPairMissing ==
    (pc = "done" /\ MetaReady /\ action = "set_metadata")
    => LET desired == NormalizeMeta(meta).dict
           need == SomePairMissing(lookup.server.metadata, desired)
       IN  /\ need = _needs_metadata_update(lookup.server.metadata, desired)
           /\ calls = IF need /\ ~check_mode
                      THEN <<Call("set_metadata_server", desired, {})>>
                      ELSE <<>>
           /\ (Len(result) = 1 /\ result[1].kind = "exit_json")
              => result[1].changed = need

\* C12 witness: the server holds the desired key with another value, and
\* the live run called the provider and reported changed=True.
C12_Witness ==
    /\ pc = "done"
    /\ MetaReady
    /\ ~check_mode
    /\ action = "set_metadata"
    /\ DOMAIN NormalizeMeta(meta).dict = {<<"k">>}
    /\ NormalizeMeta(meta).dict[<<"k">>] = <<"v">>
    /\ <<"k">> \in DOMAIN lookup.server.metadata
    /\ lookup.server.metadata[<<"k">>] = <<"w">>
    /\ Len(calls) = 1
    /\ Len(result) = 1
    /\ result[1].changed

HasEquals(p) == \E i \in 1..Len(p) : p[i] = "="

\* The pair a piece stands for when it is split on its first "=" only.
PairOnFirstEquals(p) ==
    LET i == CHOOSE n \in 1..Len(p) :
                 p[n] = "=" /\ \A j \in 1..(n - 1) : p[j] # "="
    IN  <<SubSeq(p, 1, i - 1), SubSeq(p, i + 1, Len(p))>>

\* The mapping a metadata string stands for, pair by pair, a later pair
\* replacing an earlier one of the same key.
RECURSIVE DictOnFirstEquals(_, _)
DictOnFirstEquals(pieces, acc) ==
    IF pieces = <<>>
    THEN acc
    ELSE LET kv == PairOnFirstEquals(Head(pieces))
         IN  DictOnFirstEquals(
                 Tail(pieces),
                 [x \in (DOMAIN acc) \cup {kv[1]} |->
                     IF x = kv[1] THEN kv[2] ELSE acc[x]])

\* The comma-separated pieces of the metadata string.
MetaPieces == Split(meta.str, ",")

\* C14 (the claim as stated): a metadata string all of whose pairs hold an
\* "=" is parsed without error into the mapping got by splitting each pair
\* on its first "=" only, so that "k=v=w" gives key k with value "v=w".
C14_ParsedOnFirstEquals ==
    (/\ pc = "done"
     /\ HAS_SHADE
     /\ action \in _metadata_actions
     /\ LookupFound
     /\ meta.type = "str"
     /\ \A n \in 1..Len(MetaPieces) : HasEquals(MetaPieces[n]))
    => /\ exc # "ValueError"
       /\ ~NormalizeMeta(meta).error
       /\ NormalizeMeta(meta).dict = DictOnFirstEquals(MetaPieces, EmptyDict)

\* C15 (the claim as stated): a metadata string with a pair (a piece that
\* is not empty) that holds no "=" makes the metadata action end with a failure result, and no provider
\* mutation is called.
C15_MalformedPairFails ==
    (/\ pc = "done"
     /\ HAS_SHADE
     /\ action \in _metadata_actions
     /\ meta.type = "str"
     /\ \E n \in 1..Len(MetaPieces) :
            MetaPieces[n] # <<>> /\ ~HasEquals(MetaPieces[n]))
    => /\ Len(result) = 1
       /\ result[1].kind = "fail_json"
       /\ calls = <<>>

\* C16: when the first get_server returns no server, the run ends at once
\* with the failure "Could not find server", whatever the action and the
\* mode, and that lookup is the only provider call of the run.
C16_MissingServerFails ==
    (fetches >= 1 /\ ~lookup.raised /\ ~lookup.server.found)
    => /\ pc = "done"
       /\ Len(result) = 1
       /\ result[1].kind = "fail_json"
       /\ result[1].msg[1] = NotFoundMsg("")[1]
       /\ calls = <<>>
       /\ fetches = 1
       /\ polls = 0

\* C16 witness: a live stop with wait whose lookup returned no server.
C16_Witness ==
    /\ ~check_mode
    /\ wait
    /\ action = "stop"
    /\ fetches = 1
    /\ ~lookup.raised
    /\ ~lookup.server.found
    /\ Failed(NotFoundMsg("None"))

\* C17: when the first get_server, the dispatch call or the metadata
\* mutation call raises the provider's exception, the run ends at once with
\* one failure result carrying the provider's message and extra data; the
\* call is not issued again, nothing is fetched after it and the poller is
\* not entered.
C17_ProviderErrorFails ==
    ((fetches >= 1 /\ lookup.raised) \/ raisedCall)
    => /\ pc = "done"
       /\ Failed(ProviderMsg)
       /\ result[1].extra_data
       /\ Len(calls) = (IF raisedCall THEN 1 ELSE 0)
       /\ fetches = 1
       /\ polls = 0

\* C17 witness: a live stop with wait whose provider call raised.
C17_Witness ==
    /\ raisedCall
    /\ wait
    /\ action = "stop"
    /\ calls = <<Dispatch("stop")>>
    /\ Failed(ProviderMsg)

\* C18 (the claim as stated): the changed a live run reports, when its
\* provider call succeeded and the server converged, is the changed a
\* check-mode run of the same request reports on the same server.
C18_CheckModePredictsLive ==
    (/\ pc = "done"
     /\ HAS_SHADE
     /\ ~check_mode
     /\ LookupFound
     /\ Len(result) = 1
     /\ result[1].kind = "exit_json")
    => result[1].changed =
          IF action \in _system_state_actions
          THEN StatePlan(action, TRUE, wait, status).changed
          ELSE MetaPlan(action, TRUE, lookup.server.metadata,
                        NormalizeMeta(meta).dict).early

\* The run before this one, a live run with wait of a state action other
\* than lock/unlock, reported changed=True.
PrevChangedState ==
    /\ prev.valid
    /\ HAS_SHADE
    /\ ~check_mode
    /\ wait
    /\ action \in StatusActions
    /\ prev.result = <<[kind |-> "exit_json", changed |-> TRUE,
                        msg |-> NoMsg, extra_data |-> FALSE,
                        data |-> NoData]>>

\* C19: after a live run with wait of stop, start, pause, unpause, suspend
\* or resume that reported changed=True, the same request run again on the
\* server as that run left it reports changed=False, issues no provider
\* call for the action and does not poll (unless its lookup raises).
C19_StateActionIdempotent ==
    (PrevChangedState /\ fetches >= 1 /\ ~lookup.raised)
    => /\ pc = "done"
       /\ Succeeded(FALSE)
       /\ calls = <<>>
       /\ polls = 0
       /\ fetches = 1

\* C19 witness: a stop that was dispatched and reported changed=True, then
\* the same stop again, reporting changed=False with nothing dispatched.
C19_Witness ==
    /\ PrevChangedState
    /\ action = "stop"
    /\ prev.calls = <<Dispatch("stop")>>
    /\ prev.lookup.server.status = "ACTIVE"
    /\ prev.server.status = "SHUTOFF"
    /\ pc = "done"
    /\ calls = <<>>
    /\ Succeeded(FALSE)

\* set_metadata_server(name, md) of a provider that merges md into what the
\* server holds.
Merged(held, md) ==
    [k \in (DOMAIN held) \cup (DOMAIN md) |->
        IF k \in DOMAIN md THEN md[k] ELSE held[k]]

\* delete_metadata_server(name, keys) of a provider that removes the keys.
Removed(held, keys) == [k \in (DOMAIN held) \ keys |-> held[k]]

\* The run before this one was a live metadata action that reported
\* changed=True, on a provider that merged the pairs or removed the keys.
PrevChangedMetadata ==
    /\ prev.valid
    /\ HAS_SHADE
    /\ ~check_mode
    /\ action \in _metadata_actions
    /\ Len(prev.result) = 1
    /\ prev.result[1].kind = "exit_json"
    /\ prev.result[1].changed
    /\ Len(prev.calls) = 1
    /\ prev.server.metadata =
          IF action = "set_metadata"
          THEN Merged(prev.lookup.server.metadata, prev.calls[1].metadata)
          ELSE Removed(prev.lookup.server.metadata, prev.calls[1].keys)

====
